---- MODULE Spec2Model ----
(***************************************************************************)
(* Model of SurfaceTextureExternalTextureVK                                *)
(* (shell/platform/android/surface_texture_external_texture_vk.cc).        *)
(*                                                                         *)
(* Two execution contexts:                                                 *)
(*   - the render thread, which calls ProcessFrame and Detach; each call   *)
(*     is one atomic action with respect to the other render-thread calls; *)
(*   - the image reader's listener thread, which runs OnImageAvailable.    *)
(*     The callback is split at every statement that reads or writes a     *)
(*     field shared with the render thread, so the render thread can run   *)
(*     between any two of its statements.                                  *)
(***************************************************************************)
EXTENDS Integers, FiniteSets, Sequences, TLC

\* Bound on the number of ProcessFrame calls of one behaviour.
MaxCalls == 4

\* maxImages passed to AImageReader_newWithUsage.
kMaxImages == 2

\* Lines of the `if (...) return;` checks of the setup block of ProcessFrame.
\* A setup attempt fails at exactly one of them, or at none (NoFailure).
NoFailure == 0
FailLines == {54, 72, 80, 87, 102, 107, 114, 121, 129, 139, 148, 156, 165,
              170, 178, 187, 196}

AttachmentStates == {"Uninitialized", "Attached", "Detached"}

\* A std::shared_ptr<impeller::TextureVK>: frame 0 is the null pointer;
\* valid tells whether the wrapped hardware-buffer import succeeded.
NoTexture == [frame |-> 0, valid |-> FALSE]

VARIABLES
  state_,          \* AttachmentState
  egl_,            \* std::unique_ptr<egl::Display>: "null", "invalid", "valid"
  surface_,        \* std::unique_ptr<egl::Surface>: "null", "invalid", "valid"
  gl_,             \* std::unique_ptr<ProcTableGLES>: "null", "invalid", "valid"
  texture_,        \* std::shared_ptr<TextureVK>
  dl_image_,       \* sk_sp<DlImage>: the texture it wraps
  readers,         \* AImageReaders created (none is ever deleted)
  listeners,       \* AImageReader_setImageListener registrations
  listenerOn,      \* the readers (by creation number) that have a listener
  surfaceReader,   \* the reader whose window surface_ was created from
  contextsCreated, \* egl contexts created by CreateContext
  glTextures,      \* texture handles generated by GenTextures
  glAttaches,      \* ASurfaceTexture_attachToGLContext calls
  produced,        \* frames queued into the reader by Present
  notified,        \* onImageAvailable notifications delivered
  consumed,        \* newest frame handed out by acquireLatestImage
  held,            \* AImages acquired and not deleted
  pc,              \* position of the listener thread in OnImageAvailable
  image,           \* frame of the AImage acquired by the running callback
  importOk,        \* did the import of the running callback succeed
  crashed,         \* the process dereferenced a null surface_ and died
  \* history variables
  calls,           \* ProcessFrame calls so far
  failedAttempts,  \* ProcessFrame calls whose setup failed
  attaches,        \* ProcessFrame calls that completed every setup step
  lastFailAt,      \* failing line of the latest ProcessFrame call
  lastRenderOp,    \* latest completed render-thread entry point
  lastCb,          \* outcome of the latest completed callback
  prevTexture,     \* texture_ when the latest callback started
  lastGood,        \* frame of the most recent successful import
  consecutiveDetaches, \* Detach calls since the latest other step (up to 2)
  \* Stopwatch (flow/instrumentation_dl.cc)
  frame_budget,    \* GetFrameBudget().count(), in milliseconds
  max_unit_interval, \* UnitFrameInterval(max_interval) of Visualize
  height,          \* rect.height() of the graph region; rect.y() is 0
  raster_time_ms,  \* laps_[i].ToMillisecondsF() of the latest sample
  unit_height,     \* UnitHeight of the latest sample
  sample_y,        \* sample_y of the latest sample
  sample_i         \* samples visited by the loop of Visualize

renderVars == <<state_, egl_, surface_, gl_, readers, listeners, listenerOn,
                surfaceReader, contextsCreated, glTextures, glAttaches>>
textureVars == <<texture_, dl_image_>>
streamVars == <<produced, notified, consumed, held>>
cbVars == <<pc, image, importOk>>
historyRender == <<calls, failedAttempts, attaches, lastFailAt, lastRenderOp>>
historyCb == <<lastCb, prevTexture, lastGood>>
stopwatchVars == <<frame_budget, max_unit_interval, height, raster_time_ms,
                   unit_height, sample_y, sample_i>>

vars == <<state_, egl_, surface_, gl_, texture_, dl_image_, readers,
          listeners, contextsCreated, glTextures, glAttaches, produced,
          notified, consumed, held, pc, image, importOk, crashed, calls,
          failedAttempts, attaches, lastFailAt, lastRenderOp, lastCb,
          prevTexture, lastGood, listenerOn, surfaceReader,
          consecutiveDetaches, frame_budget, max_unit_interval, height,
          raster_time_ms, unit_height, sample_y, sample_i>>

\* The fields of the bridge and the platform objects it created.
bridgeFields == <<state_, egl_, surface_, gl_, texture_, dl_image_, readers,
                  listeners, listenerOn, surfaceReader, contextsCreated,
                  glTextures, glAttaches, produced, notified, consumed, held>>

\* The setup effects of ProcessFrame (what C3, C4 and C10 call "setup steps").
setupEffects == <<egl_, surface_, gl_, readers, listeners, listenerOn,
                  surfaceReader, contextsCreated, glTextures, glAttaches>>

\* The bridge as its constructor leaves it.
BridgeInit ==
  /\ state_ = "Uninitialized"
  /\ egl_ = "null"
  /\ surface_ = "null"
  /\ gl_ = "null"
  /\ texture_ = NoTexture
  /\ dl_image_ = NoTexture
  /\ readers = 0
  /\ listeners = 0
  /\ contextsCreated = 0
  /\ glTextures = 0
  /\ glAttaches = 0
  /\ produced = 0
  /\ notified = 0
  /\ consumed = 0
  /\ held = 0
  /\ pc = "idle"
  /\ image = 0
  /\ importOk = FALSE
  /\ crashed = FALSE
  /\ calls = 0
  /\ failedAttempts = 0
  /\ attaches = 0
  /\ lastFailAt = NoFailure
  /\ lastRenderOp = "none"
  /\ lastCb = "none"
  /\ prevTexture = NoTexture
  /\ lastGood = 0
  /\ listenerOn = {}
  /\ surfaceReader = 0
  /\ consecutiveDetaches = 0

\* A rational number n/d with d > 0, standing for a double.
Rat(n, d) == [n |-> n, d |-> d]
One == Rat(1, 1)

\* A stopwatch that Visualize has not been called on.
StopwatchIdle ==
  /\ frame_budget = 1
  /\ max_unit_interval = One
  /\ height = 0
  /\ raster_time_ms = 0
  /\ unit_height = Rat(0, 1)
  /\ sample_y = Rat(0, 1)
  /\ sample_i = 0

Init == BridgeInit /\ StopwatchIdle

----------------------------------------------------------------------------
(* ProcessFrame                                                            *)

\* if (state_ == AttachmentState::kUninitialized) { ...setup... }
NeedsSetup_Always(s) == TRUE
NeedsSetup_NotAttached(s) == s # "Attached"
NeedsSetup_OnlyWithoutReader(s) == s = "Uninitialized" /\ readers = 0
NeedsSetup(s) == s = "Uninitialized"

\* Each failed check of the setup block ends the call with `return;`.
SetupReturnsEarly_NoReturnAt139(failAt) == failAt # NoFailure /\ failAt # 139
SetupReturnsEarly_NoReturnAt129(failAt) == failAt # NoFailure /\ failAt # 129
SetupReturnsEarly(failAt) == failAt # NoFailure

\* Execution of a setup attempt failing at failAt reaches the check at line.
Reached(failAt, line) == failAt = NoFailure \/ failAt >= line

\* The check at line did not fail.
Passed(failAt, line) == failAt = NoFailure \/ failAt > line

\* A unique_ptr assigned on the line just before its validity check.
AssignedBeforeCheck(old, failAt, line, onFailure) ==
  IF Reached(failAt, line)
  THEN IF failAt = line THEN onFailure ELSE "valid"
  ELSE old

\* SurfaceTextureExternalTexture::Attach, called as Attach(Id()).
Attach(s) == "Attached"

\* if (state_ == kUninitialized) { state_ = kAttached; } at the end of
\* ProcessFrame.
MarkAttached(s) == IF s = "Uninitialized" THEN "Attached" ELSE s

\* surface_->Present() queues one frame into the image reader whose window
\* the surface was created from; an invalid surface presents nothing.
PresentProduces(surf) == IF surf = "valid" THEN 1 ELSE 0

\* The setup block, failing at failAt (NoFailure: every step succeeds).
\* failedSurface is what CreateWindowSurface returned when its check fails.
Setup(failAt, failedSurface) ==
  /\ readers' = IF Passed(failAt, 54) THEN readers + 1 ELSE readers
  /\ listeners' = IF Passed(failAt, 72) THEN listeners + 1 ELSE listeners
  /\ listenerOn' = IF Passed(failAt, 72) THEN listenerOn \cup {readers + 1}
                   ELSE listenerOn
  /\ egl_' = AssignedBeforeCheck(egl_, failAt, 87, "invalid")
  /\ contextsCreated' = IF Passed(failAt, 107) THEN contextsCreated + 1
                        ELSE contextsCreated
  /\ surface_' = AssignedBeforeCheck(surface_, failAt, 114, failedSurface)
  /\ surfaceReader' = IF Reached(failAt, 114)
                      THEN IF failAt = 114 THEN 0 ELSE readers + 1
                      ELSE surfaceReader
  /\ gl_' = AssignedBeforeCheck(gl_, failAt, 129, "invalid")
  /\ glTextures' = IF Passed(failAt, 129) THEN glTextures + 1 ELSE glTextures
  /\ glAttaches' = IF Passed(failAt, 196) THEN glAttaches + 1 ELSE glAttaches

\* ProcessFrame on a bridge that needs setup.
ProcessFrameSetup(failAt, failedSurface) ==
  /\ ~crashed
  /\ calls < MaxCalls
  /\ NeedsSetup(state_)
  /\ Setup(failAt, failedSurface)
  /\ IF SetupReturnsEarly(failAt)
     THEN /\ state_' = state_
          /\ produced' = produced
     ELSE /\ state_' = MarkAttached(Attach(state_))
          /\ produced' = produced + PresentProduces(surface_')
  /\ calls' = calls + 1
  /\ failedAttempts' = IF failAt # NoFailure THEN failedAttempts + 1
                       ELSE failedAttempts
  /\ attaches' = IF failAt = NoFailure THEN attaches + 1 ELSE attaches
  /\ lastFailAt' = failAt
  /\ lastRenderOp' = "ProcessFrame"
  /\ consecutiveDetaches' = 0
  /\ UNCHANGED <<textureVars, notified, consumed, held, cbVars, crashed,
                 historyCb, stopwatchVars>>

\* ProcessFrame drawing dl_image_ without testing it for null.
ProcessFramePresent_DrawsUnsetImage ==
  /\ ~crashed
  /\ calls < MaxCalls
  /\ ~NeedsSetup(state_)
  /\ surface_ # "null"
  /\ produced' = produced + PresentProduces(surface_)
  /\ state_' = MarkAttached(state_)
  /\ crashed' = (dl_image_ = NoTexture)
  /\ calls' = calls + 1
  /\ lastFailAt' = NoFailure
  /\ lastRenderOp' = "ProcessFrame"
  /\ consecutiveDetaches' = 0
  /\ UNCHANGED <<egl_, surface_, gl_, readers, listeners, listenerOn,
                 surfaceReader, contextsCreated, glTextures, glAttaches,
                 textureVars, notified, consumed, held, cbVars,
                 failedAttempts, attaches, historyCb, stopwatchVars>>

\* ProcessFrame on a bridge that skips the setup block: Present, then the
\* final state check.
ProcessFramePresent ==
  /\ ~crashed
  /\ calls < MaxCalls
  /\ ~NeedsSetup(state_)
  /\ surface_ # "null"
  /\ produced' = produced + PresentProduces(surface_)
  /\ state_' = MarkAttached(state_)
  /\ calls' = calls + 1
  /\ lastFailAt' = NoFailure
  /\ lastRenderOp' = "ProcessFrame"
  /\ consecutiveDetaches' = 0
  /\ UNCHANGED <<egl_, surface_, gl_, readers, listeners, listenerOn,
                 surfaceReader, contextsCreated, glTextures, glAttaches,
                 textureVars, notified, consumed, held, cbVars, crashed,
                 failedAttempts, attaches, historyCb, stopwatchVars>>

\* ProcessFrame skipping setup while surface_ is null: surface_->Present()
\* dereferences a null unique_ptr.  The call either kills the process or
\* returns having presented nothing.
ProcessFrameNullSurface(outcome) ==
  /\ ~crashed
  /\ calls < MaxCalls
  /\ ~NeedsSetup(state_)
  /\ surface_ = "null"
  /\ crashed' = (outcome = "crash")
  /\ state_' = IF outcome = "crash" THEN state_ ELSE MarkAttached(state_)
  /\ calls' = calls + 1
  /\ lastFailAt' = NoFailure
  /\ lastRenderOp' = "ProcessFrame"
  /\ consecutiveDetaches' = 0
  /\ UNCHANGED <<egl_, surface_, gl_, readers, listeners, listenerOn,
                 surfaceReader, contextsCreated, glTextures, glAttaches,
                 textureVars, streamVars, cbVars, failedAttempts, attaches,
                 historyCb, stopwatchVars>>

----------------------------------------------------------------------------
(* Detach                                                                  *)

\* SurfaceTextureExternalTextureVK::Detach only forwards to the base class.
\* The base class drops the current image and marks the bridge Detached; it
\* has no access to the reader (a local of ProcessFrame) or to egl_,
\* surface_ and gl_, which stay as they are.
BaseDetachState(s) == "Detached"
BaseDetachTexture(t) == NoTexture

\* Detach that also hands one held image back to the reader on every call.
Detach_ReleasesHeldImage ==
  /\ ~crashed
  /\ state_' = BaseDetachState(state_)
  /\ texture_' = BaseDetachTexture(texture_)
  /\ dl_image_' = BaseDetachTexture(dl_image_)
  /\ held' = IF held > 0 THEN held - 1 ELSE held
  /\ lastRenderOp' = "Detach"
  /\ consecutiveDetaches' = IF consecutiveDetaches >= 1 THEN 2 ELSE 1
  /\ UNCHANGED <<egl_, surface_, gl_, readers, listeners, listenerOn,
                 surfaceReader, contextsCreated, glTextures, glAttaches,
                 produced, notified, consumed, cbVars, crashed, calls,
                 failedAttempts, attaches, lastFailAt, historyCb,
                 stopwatchVars>>

Detach ==
  /\ ~crashed
  /\ state_' = BaseDetachState(state_)
  /\ texture_' = BaseDetachTexture(texture_)
  /\ dl_image_' = BaseDetachTexture(dl_image_)
  /\ lastRenderOp' = "Detach"
  /\ consecutiveDetaches' = IF consecutiveDetaches >= 1 THEN 2 ELSE 1
  /\ UNCHANGED <<egl_, surface_, gl_, readers, listeners, listenerOn,
                 surfaceReader, contextsCreated, glTextures, glAttaches,
                 streamVars, cbVars, crashed, calls, failedAttempts, attaches,
                 lastFailAt, historyCb, stopwatchVars>>

----------------------------------------------------------------------------
(* OnImageAvailable                                                        *)

\* AImageReader_acquireLatestImage hands out the newest queued image; it
\* fails when nothing new is queued or when maxImages images are held.
CanAcquire == held < kMaxImages /\ consumed < produced

\* The callback dropping the current texture when it cannot acquire an image.
OnImageAvailable_Acquire_ResetsOnFailure(ok) ==
  /\ ~crashed
  /\ pc = "idle"
  /\ listeners > 0
  /\ notified < produced
  /\ notified' = notified + 1
  /\ prevTexture' = texture_
  /\ IF ok /\ CanAcquire
     THEN /\ image' = produced
          /\ consumed' = produced
          /\ held' = held + 1
          /\ pc' = "buffer"
          /\ lastCb' = lastCb
          /\ UNCHANGED textureVars
     ELSE /\ pc' = "idle"
          /\ lastCb' = "acquire_failed"
          /\ texture_' = NoTexture
          /\ dl_image_' = NoTexture
          /\ UNCHANGED <<image, consumed, held>>
  /\ consecutiveDetaches' = 0
  /\ UNCHANGED <<renderVars, produced, importOk, crashed, historyRender,
                 lastGood, stopwatchVars>>

\* Entry and AImageReader_acquireLatestImage.
OnImageAvailable_Acquire(ok) ==
  /\ ~crashed
  /\ pc = "idle"
  /\ listeners > 0
  /\ notified < produced
  /\ notified' = notified + 1
  /\ prevTexture' = texture_
  /\ IF ok /\ CanAcquire
     THEN /\ image' = produced
          /\ consumed' = produced
          /\ held' = held + 1
          /\ pc' = "buffer"
          /\ lastCb' = lastCb
     ELSE /\ pc' = "idle"
          /\ lastCb' = "acquire_failed"
          /\ UNCHANGED <<image, consumed, held>>
  /\ consecutiveDetaches' = 0
  /\ UNCHANGED <<renderVars, textureVars, produced, importOk, crashed,
                 historyRender, lastGood, stopwatchVars>>

\* AImage_getHardwareBuffer; on failure the callback returns.
OnImageAvailable_GetBuffer(ok) ==
  /\ ~crashed
  /\ pc = "buffer"
  /\ IF ok
     THEN /\ pc' = "import"
          /\ lastCb' = lastCb
     ELSE /\ pc' = "idle"
          /\ lastCb' = "buffer_failed"
  /\ consecutiveDetaches' = 0
  /\ UNCHANGED <<renderVars, textureVars, streamVars, image, importOk,
                 crashed, historyRender, prevTexture, lastGood,
                 stopwatchVars>>

\* texture_ = std::make_shared<TextureVK>(context, source): the new texture
\* is stored whether or not the source imported the buffer.
ImportedTexture(frame, ok) == [frame |-> frame, valid |-> ok]

OnImageAvailable_SetTexture(ok) ==
  /\ ~crashed
  /\ pc = "import"
  /\ texture_' = ImportedTexture(image, ok)
  /\ importOk' = ok
  /\ pc' = "dl_image"
  /\ consecutiveDetaches' = 0
  /\ UNCHANGED <<renderVars, dl_image_, streamVars, image, crashed,
                 historyRender, historyCb, stopwatchVars>>

\* The callback marking the bridge attached once a frame has been published.
OnImageAvailable_SetDlImage_MarksAttached ==
  /\ ~crashed
  /\ pc = "dl_image"
  /\ dl_image_' = texture_
  /\ state_' = "Attached"
  /\ pc' = "idle"
  /\ lastCb' = IF importOk THEN "import_ok" ELSE "import_failed"
  /\ lastGood' = IF importOk THEN image ELSE lastGood
  /\ consecutiveDetaches' = 0
  /\ UNCHANGED <<egl_, surface_, gl_, readers, listeners, listenerOn,
                 surfaceReader, contextsCreated, glTextures, glAttaches,
                 texture_, streamVars, image, importOk, crashed,
                 historyRender, prevTexture, stopwatchVars>>

\* dl_image_ = DlImageImpeller::Make(texture_); then the callback returns.
OnImageAvailable_SetDlImage ==
  /\ ~crashed
  /\ pc = "dl_image"
  /\ dl_image_' = texture_
  /\ pc' = "idle"
  /\ lastCb' = IF importOk THEN "import_ok" ELSE "import_failed"
  /\ lastGood' = IF importOk THEN image ELSE lastGood
  /\ consecutiveDetaches' = 0
  /\ UNCHANGED <<renderVars, texture_, streamVars, image, importOk, crashed,
                 historyRender, prevTexture, stopwatchVars>>

----------------------------------------------------------------------------

Next ==
  \/ \E failAt \in FailLines \cup {NoFailure},
        failedSurface \in {"null", "invalid"} :
       ProcessFrameSetup(failAt, failedSurface)
  \/ ProcessFramePresent
  \/ \E outcome \in {"crash", "noop"} : ProcessFrameNullSurface(outcome)
  \/ Detach
  \/ \E ok \in BOOLEAN : OnImageAvailable_Acquire(ok)
  \/ \E ok \in BOOLEAN : OnImageAvailable_GetBuffer(ok)
  \/ \E ok \in BOOLEAN : OnImageAvailable_SetTexture(ok)
  \/ OnImageAvailable_SetDlImage

Spec == Init /\ [][Next]_vars

----------------------------------------------------------------------------
(* Stopwatch::UnitFrameInterval, Stopwatch::UnitHeight and the sample loop *)
(* of DlStopwatch::Visualize (flow/instrumentation_dl.cc).  Doubles are    *)
(* modelled as exact rationals.                                            *)

\* Bounds on the inputs of the stopwatch.
MaxBudget == 3
MaxInterval == 3
MaxRasterTime == 7
MaxHeight == 2

\* static const size_t kMaxSamples = 120;
kMaxSamples == 120

\* Everything that belongs to the bridge.
bridgeVars == <<bridgeFields, cbVars, crashed, historyRender, historyCb,
                consecutiveDetaches>>

RatDiv(a, b) == Rat(a.n * b.d, a.d * b.n)
RatEq(a, b) == a.n * b.d = b.n * a.d
RatGreater(a, b) == a.n * b.d > b.n * a.d

\* return raster_time_ms / GetFrameBudget().count();
UnitFrameInterval(raster) == Rat(raster, frame_budget)

\* UnitHeight without the clamp.
UnitHeight_NoClamp(raster, max_unit) ==
  RatDiv(UnitFrameInterval(raster), max_unit)

\* double unit_height = UnitFrameInterval(raster_time_ms) / max_unit_interval;
\* if (unit_height > 1.0) { unit_height = 1.0; }
UnitHeight(raster, max_unit) ==
  LET quotient == RatDiv(UnitFrameInterval(raster), max_unit)
  IN IF RatGreater(quotient, One) THEN One ELSE quotient

\* y + height * (1.0 - unit), with y = rect.y() = 0.
SampleY(unit) == Rat(height * (unit.d - unit.n), unit.d)

\* Visualize is entered with a positive frame budget, a positive
\* max_interval and a region of non-negative height.
InitStopwatch ==
  /\ BridgeInit
  /\ frame_budget \in 1..MaxBudget
  /\ \E max_interval \in 1..MaxInterval :
       max_unit_interval = UnitFrameInterval(max_interval)
  /\ height \in 0..MaxHeight
  /\ raster_time_ms = 0
  /\ unit_height = Rat(0, 1)
  /\ sample_y = Rat(0, 1)
  /\ sample_i = 0

\* One iteration of the loop over laps_: the sample's height and its y.
VisualizeSample(lap) ==
  /\ sample_i < kMaxSamples
  /\ raster_time_ms' = lap
  /\ unit_height' = UnitHeight(lap, max_unit_interval)
  /\ sample_y' = SampleY(unit_height')
  /\ sample_i' = sample_i + 1
  /\ UNCHANGED <<bridgeVars, frame_budget, max_unit_interval, height>>

NextStopwatch == \E lap \in 0..MaxRasterTime : VisualizeSample(lap)

SpecStopwatch == InitStopwatch /\ [][NextStopwatch]_vars

----------------------------------------------------------------------------
(* Claims                                                                  *)

\* C1: after N >= 1 successive ProcessFrame calls whose setup fails, whatever
\* the failing step, state is still Uninitialized: a failed setup never moves
\* the bridge to Attached or Detached.
C1_FailedSetupStaysUninitialized ==
  (failedAttempts >= 1 /\ lastRenderOp = "ProcessFrame"
     /\ lastFailAt # NoFailure)
    => (state_ = "Uninitialized" /\ calls = failedAttempts)

\* Three successive failed attempts, the latest one failing at the last check.
C1_Witness ==
  /\ failedAttempts >= 3
  /\ lastRenderOp = "ProcessFrame"
  /\ lastFailAt = 196
  /\ state_ = "Uninitialized"

\* C2: a ProcessFrame call whose setup fails leaves no resource of the earlier
\* steps allocated and every bridge-owned field as it was: while the bridge is
\* Uninitialized (only failed attempts so far) the live resources are those
\* of the freshly constructed bridge.
C2_FailedSetupLeavesNothing ==
  state_ = "Uninitialized" =>
    /\ readers = 0
    /\ listeners = 0
    /\ glTextures = 0
    /\ egl_ = "null"
    /\ surface_ = "null"
    /\ gl_ = "null"

\* C3: each setup side effect (stream creation, render-context creation,
\* callback registration) occurs at most once in the bridge's lifetime, and
\* only in the call that performs the Uninitialized to Attached transition.
C3_SetupEffectsAtMostOnce ==
  /\ readers <= 1
  /\ listeners <= 1
  /\ contextsCreated <= 1
  /\ (attaches = 0 => readers = 0 /\ listeners = 0 /\ contextsCreated = 0)

\* C4: the call that completes every setup step leaves state Attached, and
\* once such a call has happened no later step performs any setup step,
\* whatever callbacks are interleaved.
C4_NoSetupAfterAttach ==
  [][/\ (attaches' > attaches => state_' = "Attached")
     /\ (attaches >= 1 => attaches' = attaches /\ UNCHANGED setupEffects)]_vars

\* An attached bridge that has served a further ProcessFrame call while a
\* callback is between its two stores.
C4_Witness ==
  /\ attaches = 1
  /\ calls - failedAttempts >= 2
  /\ lastRenderOp = "ProcessFrame"
  /\ state_ = "Attached"
  /\ pc = "dl_image"

\* C5: whenever the render thread looks, texture_ and dl_image_ belong to the
\* same frame: it never sees the new texture next to the previous frame's
\* display image.
C5_PublishIsAtomic ==
  (texture_.frame # 0 /\ dl_image_.frame # 0) => dl_image_ = texture_

\* C6: when the import of a frame fails after an earlier import succeeded,
\* the texture visible once the callback has returned is the earlier one.
C6_FailedImportKeepsTexture ==
  (pc = "idle" /\ lastCb = "import_failed" /\ prevTexture.valid
     /\ lastRenderOp # "Detach")
    => texture_ = prevTexture

\* C7: every acquired image has been released when the callback invocation
\* ends: none is held between invocations.
C7_AcquiredImageReleased ==
  pc = "idle" => held = 0

\* C8: at the start of a callback the number of acquired and unreleased
\* images is below the stream's capacity, so no acquisition fails for lack
\* of capacity.
C8_CapacityNeverExhausted ==
  pc = "idle" => held < kMaxImages

\* C9: after any sequence of completed callbacks the current texture is the
\* one produced by the most recent successful import.
C9_LastWriterWins ==
  (pc = "idle" /\ lastGood # 0 /\ state_ = "Attached")
    => texture_ = [frame |-> lastGood, valid |-> TRUE]

\* C10: the only state transitions are Uninitialized to Attached,
\* Uninitialized to Detached and Attached to Detached; once Detached the
\* state never changes and no setup step runs.
C10_TransitionsAndTerminalDetached ==
  [][/\ (state_' # state_ =>
           <<state_, state_'>> \in {<<"Uninitialized", "Attached">>,
                                    <<"Uninitialized", "Detached">>,
                                    <<"Attached", "Detached">>})
     /\ (state_ = "Detached" =>
           state_' = "Detached" /\ UNCHANGED setupEffects)]_vars

\* ProcessFrame has returned on a bridge that was already Detached.
C10_Witness ==
  /\ state_ = "Detached"
  /\ lastRenderOp = "ProcessFrame"
  /\ ~crashed

\* C11: a callback that is in flight when Detach runs, or that completes
\* after it, does not publish: once the bridge is Detached the current
\* texture (texture_ and dl_image_) stays unset.
C11_NoPublishAfterDetach ==
  state_ = "Detached" => (texture_ = NoTexture /\ dl_image_ = NoTexture)

\* C12: after Detach has returned, state is Detached, the callback is
\* unregistered, the current texture is unset and the render context and the
\* stream created by setup are torn down.
C12_DetachReleasesEverything ==
  lastRenderOp = "Detach" =>
    /\ state_ = "Detached"
    /\ listeners = 0
    /\ readers = 0
    /\ egl_ = "null"
    /\ surface_ = "null"
    /\ gl_ = "null"
    /\ texture_ = NoTexture
    /\ dl_image_ = NoTexture

C14_AcquireFailureChangesNothing ==
  [][(pc = "idle" /\ notified' = notified + 1 /\ pc' = "idle")
       => UNCHANGED <<state_, texture_, dl_image_>>]_vars

\* A callback has failed to acquire while a texture was published.
C14_Witness ==
  /\ lastCb = "acquire_failed"
  /\ pc = "idle"
  /\ state_ = "Attached"
  /\ texture_.valid
  /\ dl_image_ = texture_

\* C15: every ProcessFrame call made while state is Uninitialized starts a
\* fresh setup attempt from the first step (it asks for a new image reader);
\* if every step succeeds the call ends Attached, however many attempts
\* failed before, and if a step fails the bridge stays Uninitialized, so the
\* next call retries.
C15_SetupRetriedUntilSuccess ==
  [][(state_ = "Uninitialized" /\ calls' = calls + 1) =>
       /\ (lastFailAt' # 54 => readers' = readers + 1)
       /\ (lastFailAt' = NoFailure =>
             state_' = "Attached" /\ attaches' = attaches + 1)
       /\ (lastFailAt' # NoFailure =>
             state_' = "Uninitialized"
               /\ failedAttempts' = failedAttempts + 1)]_vars

\* A successful attempt right after two failed ones.
C15_Witness ==
  /\ failedAttempts >= 2
  /\ calls = failedAttempts + 1
  /\ attaches = 1
  /\ lastRenderOp = "ProcessFrame"
  /\ state_ = "Attached"

\* C16: as long as no OnImageAvailable call has happened, every ProcessFrame
\* call on an Attached bridge completes without error, leaves the current
\* texture unset and leaves the state Attached.
C16_NoFrameYetIsNotAnError ==
  [][(state_ = "Attached" /\ notified' = 0 /\ calls' = calls + 1) =>
       /\ state_' = "Attached"
       /\ texture_' = NoTexture
       /\ dl_image_' = NoTexture
       /\ ~crashed']_vars

\* Three ProcessFrame calls on the attached bridge and no callback so far.
C16_Witness ==
  /\ state_ = "Attached"
  /\ notified = 0
  /\ calls - failedAttempts >= 3
  /\ lastRenderOp = "ProcessFrame"
  /\ texture_ = NoTexture
  /\ ~crashed

\* C17: a ProcessFrame call that reaches the present step (it did not return
\* from a failed setup) presents a surface that setup has created: present
\* never acts on an absent surface.
C17_PresentOnlyOnCreatedSurface ==
  [][(calls' = calls + 1 /\ lastFailAt' = NoFailure)
       => surface_' = "valid"]_vars

\* C18: the two threads write disjoint fields: every step of OnImageAvailable
\* leaves the attachment state, the stream and the render context (display,
\* surface, GL table) unchanged, and every ProcessFrame call leaves the
\* current texture (texture_ and dl_image_) unchanged.
C18_ThreadsWriteDisjointFields ==
  [][/\ ((pc' # pc \/ notified' # notified) => UNCHANGED renderVars)
     /\ (calls' = calls + 1 => UNCHANGED textureVars)]_vars

\* ProcessFrame has run on a bridge with a published texture while the next
\* callback is in flight.
C18_Witness ==
  /\ lastCb = "import_ok"
  /\ texture_.valid
  /\ dl_image_ = texture_
  /\ lastRenderOp = "ProcessFrame"
  /\ consecutiveDetaches = 0
  /\ pc = "import"

\* C19: whenever state is Attached, one single ProcessFrame call has completed
\* every setup step: the display, the surface and the GL table are all set
\* and valid, the placeholder texture has been bound once, and the surface is
\* bound to the window of the reader that call created and registered the
\* callback on.
C19_AttachedMeansFullySetUp ==
  state_ = "Attached" =>
    /\ attaches = 1
    /\ egl_ = "valid"
    /\ surface_ = "valid"
    /\ gl_ = "valid"
    /\ contextsCreated >= 1
    /\ glTextures >= 1
    /\ glAttaches = 1
    /\ surfaceReader = readers
    /\ surfaceReader \in listenerOn

\* Attached after two failed attempts that left readers behind.
C19_Witness ==
  /\ state_ = "Attached"
  /\ failedAttempts >= 2
  /\ readers >= 3
  /\ surfaceReader = 3

\* C20: for every raster time and every positive max_unit_interval,
\* UnitHeight is UnitFrameInterval(raster_time) / max_unit_interval when that
\* quotient is at most 1 and exactly 1 otherwise; it never exceeds 1, so no
\* sample of the graph lies above the top of the region (sample_y >= y).
C20_UnitHeightClamped ==
  sample_i > 0 =>
    LET quotient == Rat(raster_time_ms * max_unit_interval.d,
                        frame_budget * max_unit_interval.n)
    IN /\ (quotient.n <= quotient.d => RatEq(unit_height, quotient))
       /\ (quotient.n > quotient.d => unit_height = One)
       /\ unit_height.n <= unit_height.d
       /\ sample_y.n >= 0

\* A sample whose quotient exceeds 1 has been clamped, in a region of
\* positive height.
C20_Witness ==
  /\ sample_i > 0
  /\ raster_time_ms * max_unit_interval.d > frame_budget * max_unit_interval.n
  /\ unit_height = One
  /\ height > 0
  /\ sample_y.n = 0

====
